---- MODULE Spec2Model ----
(***************************************************************************)
(* A model of the cloco client's ApiClient (src/src/api-client.ts) and     *)
(* FileSystem (src/src/file-system.ts).                                    *)
(*                                                                         *)
(* JavaScript strings are sequences of one-character strings; every other  *)
(* JavaScript value is a record with a type tag "t".                       *)
(***************************************************************************)
EXTENDS Integers, Sequences, FiniteSets, TLC

(***************************************************************************)
(* Bounds of the model.                                                    *)
(***************************************************************************)
\* invocations of ApiClient operations in a behaviour of Spec
MaxCalls == 1
\* invocations of ApiClient operations in a behaviour of ConcSpec
MaxConcurrent == 2
\* FileSystem operations started in a behaviour of FsSpec
MaxFsOps == 2

(***************************************************************************)
(* Characters and strings.                                                 *)
(***************************************************************************)
\* the printable ASCII characters, code 32 first (code 96, which a TLA+
\* string cannot hold, by a name)
AsciiTable ==
  <<" ", "!", "\"", "#", "$", "%", "&", "'", "(", ")", "*", "+", ",", "-", ".", "/",
    "0", "1", "2", "3", "4", "5", "6", "7", "8", "9", ":", ";", "<", "=", ">", "?",
    "@", "A", "B", "C", "D", "E", "F", "G", "H", "I", "J", "K", "L", "M", "N", "O",
    "P", "Q", "R", "S", "T", "U", "V", "W", "X", "Y", "Z", "[", "\\", "]", "^", "_",
    "<grave>", "a", "b", "c", "d", "e", "f", "g", "h", "i", "j", "k", "l", "m", "n", "o",
    "p", "q", "r", "s", "t", "u", "v", "w", "x", "y", "z", "{", "|", "}", "~">>

\* the byte a character is encoded as (new Buffer(string) of an ASCII string)
Ord(c) == 31 + CHOOSE i \in 1..Len(AsciiTable) : AsciiTable[i] = c

\* the base64 alphabet, sextet 0 first
Base64Table ==
  <<"A", "B", "C", "D", "E", "F", "G", "H", "I", "J", "K", "L", "M", "N", "O", "P",
    "Q", "R", "S", "T", "U", "V", "W", "X", "Y", "Z", "a", "b", "c", "d", "e", "f",
    "g", "h", "i", "j", "k", "l", "m", "n", "o", "p", "q", "r", "s", "t", "u", "v",
    "w", "x", "y", "z", "0", "1", "2", "3", "4", "5", "6", "7", "8", "9", "+", "/">>

Sextet(n) == Base64Table[n + 1]

RECURSIVE Base64(_)
\* new Buffer(s).toString("base64"): three bytes make four sextets, the last
\* group is padded with "="
Base64(s) ==
  IF Len(s) = 0 THEN << >>
  ELSE IF Len(s) = 1 THEN
    LET n == Ord(s[1]) * 16
    IN  <<Sextet(n \div 64), Sextet(n % 64), "=", "=">>
  ELSE IF Len(s) = 2 THEN
    LET n == (Ord(s[1]) * 256 + Ord(s[2])) * 4
    IN  <<Sextet(n \div 4096), Sextet((n \div 64) % 64), Sextet(n % 64), "=">>
  ELSE
    LET n == Ord(s[1]) * 65536 + Ord(s[2]) * 256 + Ord(s[3])
    IN  <<Sextet(n \div 262144), Sextet((n \div 4096) % 64),
          Sextet((n \div 64) % 64), Sextet(n % 64)>>
        \o Base64(SubSeq(s, 4, Len(s)))

(***************************************************************************)
(* JavaScript values.                                                      *)
(***************************************************************************)
Null == [t |-> "null"]
Undefined == [t |-> "undefined"]
Str(s) == [t |-> "string", s |-> s]
Num(n) == [t |-> "number", n |-> n]
Arr(items) == [t |-> "array", items |-> items]
Obj(id) == [t |-> "object", id |-> id]
Err(name) == [t |-> "Error", name |-> name]
\* what JSON.parse throws on text that is not JSON
SyntaxError == [t |-> "SyntaxError"]

\* typeof v
TypeOf(v) ==
  CASE v.t = "string" -> "string"
    [] v.t = "number" -> "number"
    [] v.t = "undefined" -> "undefined"
    [] OTHER -> "object"

\* the truthiness an if (v) tests
Truthy(v) ==
  CASE v.t = "null" -> FALSE
    [] v.t = "undefined" -> FALSE
    [] v.t = "string" -> Len(v.s) > 0
    [] v.t = "number" -> v.n # 0
    [] OTHER -> TRUE

(***************************************************************************)
(* JSON.parse, on the JSON texts made of numbers without sign, fraction or *)
(* exponent, of arrays and of blanks.  A parse result is                   *)
(* [ok, value, next]: next is the position after the value.                *)
(***************************************************************************)
Digits == <<"0", "1", "2", "3", "4", "5", "6", "7", "8", "9">>
IsDigit(c) == \E d \in 1..Len(Digits) : Digits[d] = c
DigitValue(c) == (CHOOSE d \in 1..Len(Digits) : Digits[d] = c) - 1
ParseFail == [ok |-> FALSE, value |-> Undefined, next |-> 0]

RECURSIVE SkipBlanks(_, _)
SkipBlanks(s, i) ==
  IF i <= Len(s) /\ s[i] = " " THEN SkipBlanks(s, i + 1) ELSE i

RECURSIVE ParseDigits(_, _, _)
\* the digits after the first one of a number
ParseDigits(s, i, acc) ==
  IF i <= Len(s) /\ IsDigit(s[i])
  THEN ParseDigits(s, i + 1, acc * 10 + DigitValue(s[i]))
  ELSE [ok |-> TRUE, value |-> Num(acc), next |-> i]

\* a number: "0", or a digit other than "0" followed by digits
ParseNumber(s, i) ==
  IF s[i] = "0" THEN [ok |-> TRUE, value |-> Num(0), next |-> i + 1]
  ELSE ParseDigits(s, i + 1, DigitValue(s[i]))

RECURSIVE ParseValue(_, _), ParseElements(_, _, _)
\* the elements of an array after "[" and after each ","
ParseElements(s, i, items) ==
  LET e == ParseValue(s, i)
      j == SkipBlanks(s, e.next)
  IN  IF ~e.ok \/ j > Len(s) THEN ParseFail
      ELSE IF s[j] = "]"
        THEN [ok |-> TRUE, value |-> Arr(Append(items, e.value)), next |-> j + 1]
      ELSE IF s[j] = ","
        THEN ParseElements(s, j + 1, Append(items, e.value))
      ELSE ParseFail

ParseValue(s, i0) ==
  LET i == SkipBlanks(s, i0)
  IN  IF i > Len(s) THEN ParseFail
      ELSE IF IsDigit(s[i]) THEN ParseNumber(s, i)
      ELSE IF s[i] = "["
        THEN LET j == SkipBlanks(s, i + 1)
             IN  IF j <= Len(s) /\ s[j] = "]"
                 THEN [ok |-> TRUE, value |-> Arr(<< >>), next |-> j + 1]
                 ELSE ParseElements(s, i + 1, << >>)
      ELSE ParseFail

\* JSON.parse(text): [ok |-> TRUE, value |-> v], or ok = FALSE where it throws
JSONParse(text) ==
  LET r == ParseValue(text, 1)
  IN  IF r.ok /\ SkipBlanks(text, r.next) > Len(text)
      THEN [ok |-> TRUE, value |-> r.value]
      ELSE [ok |-> FALSE, value |-> SyntaxError]

(***************************************************************************)
(* The state.                                                              *)
(***************************************************************************)
VARIABLES
  options,   \* the caller's IOptions objects, by identity
  calls,     \* the invocations of ApiClient operations, in the order made
  dirs,      \* the directories on disk
  files,     \* the files on disk: file name -> contents
  ensured,   \* the paths ensureDirectory has returned for
  fsQueue,   \* the requests handed to fs that have not run yet
  fsOps      \* the promises FileSystem.readFile and writeFile returned

apiVars == <<options, calls>>
fsVars == <<dirs, files, ensured, fsQueue, fsOps>>
vars == <<options, calls, dirs, files, ensured, fsQueue, fsOps>>

(***************************************************************************)
(* IOptions: the objects the caller holds.                                 *)
(***************************************************************************)
OptionIds == {"o1", "o2"}

InitialOptions ==
  [o \in OptionIds |->
     IF o = "o1"
     THEN [url |-> <<"h", "1">>, subscription |-> <<"s", "1">>,
           application |-> <<"a", "1">>, environment |-> <<"e", "1">>,
           credentials |-> [key |-> <<"k", "1">>, secret |-> <<"x", "1">>],
           tokens |-> [accessToken |-> <<"t", "1">>, refreshToken |-> <<"r", "1">>]]
     ELSE [url |-> <<"h", "2">>, subscription |-> <<"s", "2">>,
           application |-> <<"a", "2">>, environment |-> <<"e", "2">>,
           credentials |-> [key |-> <<"k">>, secret |-> <<"x", "2">>],
           tokens |-> [accessToken |-> <<"t", "2">>, refreshToken |-> <<"r", "2">>]]]

\* the token pair a caller stores after a token response
FreshTokens == [accessToken |-> <<"t", "3">>, refreshToken |-> <<"r", "3">>]

\* The caller owns the IOptions objects and replaces their tokens at any time.
CallerStoresTokens(o) ==
  /\ options[o].tokens # FreshTokens
  /\ options' = [options EXCEPT ![o].tokens = FreshTokens]
  /\ UNCHANGED <<calls, fsVars>>

(***************************************************************************)
(* restify clients and promises.                                           *)
(***************************************************************************)
\* getRestifyOptions with the credential type ignored
getRestifyOptions_AlwaysBearer(opts, credentialType) ==
  [url |-> opts.url, version |-> <<"*">>,
   headers |-> [authorization |->
                  <<"B", "e", "a", "r", "e", "r", " ">> \o opts.tokens.accessToken]]

\* ApiClient.getRestifyOptions(options, credentialType)
getRestifyOptions(opts, credentialType) ==
  LET restifyOptions == [url |-> opts.url, version |-> <<"*">>]
      encoded == Base64(opts.credentials.key \o <<":">> \o opts.credentials.secret)
      headers ==
        IF credentialType = Str(<<"b", "a", "s", "i", "c">>)
        THEN [authorization |-> <<"B", "a", "s", "i", "c", " ">> \o encoded]
        ELSE [authorization |->
                <<"B", "e", "a", "r", "e", "r", " ">> \o opts.tokens.accessToken]
  IN  [url |-> restifyOptions.url, version |-> restifyOptions.version,
       headers |-> headers]

createJsonClient(restifyOptions) == [type |-> "json", options |-> restifyOptions]
createStringClient(restifyOptions) == [type |-> "string", options |-> restifyOptions]

\* new TokenRequest(): no field is set
NewTokenRequest == [t |-> "TokenRequest", fields |-> << >>]
\* body.field = value
SetField(body, field, value) ==
  [body EXCEPT !.fields = Append(SelectSeq(@, LAMBDA f : f.name # field),
                                 [name |-> field, value |-> value])]

\* client.get / put / post (path, body, callback): the request goes out and the
\* callback waits for the transport
Request(method, path, body) == [method |-> method, path |-> path, body |-> body]

\* The invocation an operation creates: its arguments, the client it made, the
\* requests it issued, and the promise it returned.  cb is the position of
\* the transport callback; err and obj are what the transport passed to it;
\* settles are the calls made to the promise's resolve and reject, in order.
NewCall(op, o, objectId, body, parseResponse, client, request) ==
  [op |-> op, options |-> o, objectId |-> objectId, body |-> body,
   parseResponse |-> parseResponse, client |-> client,
   requests |-> <<request>>,
   cb |-> "waiting", err |-> Undefined, obj |-> Undefined, thrown |-> Undefined,
   settles |-> << >>]

\* resolve(value) and reject(reason), called from the transport callback
resolve(call, value) ==
  [call EXCEPT !.settles = Append(@, [kind |-> "resolve", value |-> value])]
reject(call, reason) ==
  [call EXCEPT !.settles = Append(@, [kind |-> "reject", value |-> reason])]

\* the callback was entered with (err, obj) and returned
Returned(call, err, obj) ==
  [call EXCEPT !.cb = "returned", !.err = err, !.obj = obj]
\* the callback was entered with (err, obj) and threw
Threw(call, err, obj, exception) ==
  [call EXCEPT !.cb = "threw", !.err = err, !.obj = obj, !.thrown = exception]

(***************************************************************************)
(* The five operations.  An operation runs to its return without           *)
(* suspending: it builds the client and the path, creates the promise, and *)
(* the promise's executor issues the request.                              *)
(***************************************************************************)
getApplication(o) ==
  LET opts == options[o]
      client == createJsonClient(getRestifyOptions(opts, Undefined))
      path == <<"/">> \o opts.subscription \o <<"/", "a", "p", "p", "l", "i", "c", "a", "t", "i", "o", "n", "s", "/">>
                \o opts.application
  IN  /\ calls' = Append(calls,
           NewCall("getApplication", o, Undefined, Undefined, FALSE, client,
                   Request("GET", path, Undefined)))
      /\ UNCHANGED <<options, fsVars>>

\* getConfigObject with the object id and the environment in each other's place
getConfigObject_SwappedSegments(o, objectId) ==
  LET opts == options[o]
      client == createJsonClient(getRestifyOptions(opts, Undefined))
      path == <<"/">> \o opts.subscription \o <<"/", "c", "o", "n", "f", "i", "g", "u", "r", "a", "t", "i", "o", "n", "/">>
                \o opts.application \o <<"/">> \o opts.environment \o <<"/">>
                \o objectId.s
  IN  /\ calls' = Append(calls,
           NewCall("getConfigObject", o, objectId, Undefined, FALSE, client,
                   Request("GET", path, Undefined)))
      /\ UNCHANGED <<options, fsVars>>

getConfigObject(o, objectId) ==
  LET opts == options[o]
      client == createJsonClient(getRestifyOptions(opts, Undefined))
      path == <<"/">> \o opts.subscription \o <<"/", "c", "o", "n", "f", "i", "g", "u", "r", "a", "t", "i", "o", "n", "/">>
                \o opts.application \o <<"/">> \o objectId.s \o <<"/">>
                \o opts.environment
  IN  /\ calls' = Append(calls,
           NewCall("getConfigObject", o, objectId, Undefined, FALSE, client,
                   Request("GET", path, Undefined)))
      /\ UNCHANGED <<options, fsVars>>

putConfigObject(o, objectId, body) ==
  LET opts == options[o]
      isString == TypeOf(body) = "string"
      client == IF isString
                THEN createStringClient(getRestifyOptions(opts, Undefined))
                ELSE createJsonClient(getRestifyOptions(opts, Undefined))
      parseResponse == isString
      path == <<"/">> \o opts.subscription \o <<"/", "c", "o", "n", "f", "i", "g", "u", "r", "a", "t", "i", "o", "n", "/">>
                \o opts.application \o <<"/">> \o objectId.s \o <<"/">>
                \o opts.environment
  IN  /\ calls' = Append(calls,
           NewCall("putConfigObject", o, objectId, body, parseResponse, client,
                   Request("PUT", path, body)))
      /\ UNCHANGED <<options, fsVars>>

getAccessTokenFromRefreshToken(o) ==
  LET opts == options[o]
      client == createJsonClient(getRestifyOptions(opts, Undefined))
      path == <<"/", "o", "a", "u", "t", "h", "/", "t", "o", "k", "e", "n">>
      body == SetField(SetField(NewTokenRequest, "grant_type", Str(<<"r", "e", "f", "r", "e", "s", "h", "_", "t", "o", "k", "e", "n">>)),
                       "refresh_token", Str(opts.tokens.refreshToken))
  IN  /\ calls' = Append(calls,
           NewCall("getAccessTokenFromRefreshToken", o, Undefined, Undefined,
                   FALSE, client, Request("POST", path, body)))
      /\ UNCHANGED <<options, fsVars>>

\* getAccessTokenFromClientCredentials with the refresh flow's body fields
getAccessTokenFromClientCredentials_SendsRefreshToken(o) ==
  LET opts == options[o]
      client == createJsonClient(getRestifyOptions(opts, Str(<<"b", "a", "s", "i", "c">>)))
      path == <<"/", "o", "a", "u", "t", "h", "/", "t", "o", "k", "e", "n">>
      body == SetField(SetField(NewTokenRequest, "grant_type", Str(<<"c", "l", "i", "e", "n", "t", "_", "c", "r", "e", "d", "e", "n", "t", "i", "a", "l", "s">>)),
                       "refresh_token", Str(opts.tokens.refreshToken))
  IN  /\ calls' = Append(calls,
           NewCall("getAccessTokenFromClientCredentials", o, Undefined,
                   Undefined, FALSE, client, Request("POST", path, body)))
      /\ UNCHANGED <<options, fsVars>>

getAccessTokenFromClientCredentials(o) ==
  LET opts == options[o]
      client == createJsonClient(getRestifyOptions(opts, Str(<<"b", "a", "s", "i", "c">>)))
      path == <<"/", "o", "a", "u", "t", "h", "/", "t", "o", "k", "e", "n">>
      body == SetField(NewTokenRequest, "grant_type", Str(<<"c", "l", "i", "e", "n", "t", "_", "c", "r", "e", "d", "e", "n", "t", "i", "a", "l", "s">>))
  IN  /\ calls' = Append(calls,
           NewCall("getAccessTokenFromClientCredentials", o, Undefined,
                   Undefined, FALSE, client, Request("POST", path, body)))
      /\ UNCHANGED <<options, fsVars>>

(***************************************************************************)
(* The transport callbacks.  The transport calls the callback of a request *)
(* once, with an error, or with no error and the response: the decoded     *)
(* object from a JSON client, the response text from a string client.      *)
(***************************************************************************)
TransportErrors == {Err("ECONNREFUSED"), Err("NotFound")}
JsonResponses == {Obj("w1"), Obj("w2")}
TextResponses ==
  {Str(<<"1">>), Str(<<"[", "1", ",", " ", "0", "]">>),
   Str(<<"[", "1">>), Str(<<"x", "=", "1">>), Str(<< >>)}

TransportResults(client) ==
  [err : TransportErrors, obj : {Undefined}]
  \cup [err : {Null},
        obj : IF client.type = "json" THEN JsonResponses ELSE TextResponses]

\* the callback rejecting with an error of its own in place of err
SettleCallback_WrapsError(call, err, obj) ==
  IF Truthy(err)
  THEN Returned(reject(call, Err("Error")), err, obj)
  ELSE Returned(resolve(call, obj), err, obj)

\* the callback without its else: after reject(err) it goes on to resolve(obj)
SettleCallback_NoElse(call, err, obj) ==
  IF Truthy(err)
  THEN Returned(resolve(reject(call, err), obj), err, obj)
  ELSE Returned(resolve(call, obj), err, obj)

\* The body shared by the callbacks that do not parse: reject(err) or resolve(obj).
SettleCallback(call, err, obj) ==
  IF Truthy(err)
  THEN Returned(reject(call, err), err, obj)
  ELSE Returned(resolve(call, obj), err, obj)

getApplicationCallback(i, err, obj) ==
  /\ calls[i].op = "getApplication" /\ calls[i].cb = "waiting"
  /\ calls' = [calls EXCEPT ![i] = SettleCallback(@, err, obj)]
  /\ UNCHANGED <<options, fsVars>>

getConfigObjectCallback(i, err, obj) ==
  /\ calls[i].op = "getConfigObject" /\ calls[i].cb = "waiting"
  /\ calls' = [calls EXCEPT ![i] = SettleCallback(@, err, obj)]
  /\ UNCHANGED <<options, fsVars>>

\* the put callback without the parse of the response text
PutCallbackBody_NoParse(call, err, obj) ==
  IF Truthy(err)
  THEN Returned(reject(call, err), err, obj)
  ELSE Returned(resolve(call, obj), err, obj)

\* JSON.parse throws inside the callback when the response text is not JSON:
\* the callback ends there, and neither resolve nor reject is called.
PutCallbackBody(call, err, obj) ==
  IF Truthy(err)
  THEN Returned(reject(call, err), err, obj)
  ELSE IF call.parseResponse
    THEN LET parsed == JSONParse(obj.s)
         IN  IF parsed.ok
             THEN Returned(resolve(call, parsed.value), err, obj)
             ELSE Threw(call, err, obj, parsed.value)
    ELSE Returned(resolve(call, obj), err, obj)

putConfigObjectCallback(i, err, obj) ==
  /\ calls[i].op = "putConfigObject" /\ calls[i].cb = "waiting"
  /\ calls' = [calls EXCEPT ![i] = PutCallbackBody(@, err, obj)]
  /\ UNCHANGED <<options, fsVars>>

\* the refresh callback storing the new tokens in the IOptions it was passed
getAccessTokenFromRefreshTokenCallback_StoresTokens(i, err, obj) ==
  /\ calls[i].op = "getAccessTokenFromRefreshToken" /\ calls[i].cb = "waiting"
  /\ calls' = [calls EXCEPT ![i] = SettleCallback(@, err, obj)]
  /\ options' = IF Truthy(err) THEN options
                ELSE [options EXCEPT ![calls[i].options].tokens = FreshTokens]
  /\ UNCHANGED fsVars

getAccessTokenFromRefreshTokenCallback(i, err, obj) ==
  /\ calls[i].op = "getAccessTokenFromRefreshToken" /\ calls[i].cb = "waiting"
  /\ calls' = [calls EXCEPT ![i] = SettleCallback(@, err, obj)]
  /\ UNCHANGED <<options, fsVars>>

getAccessTokenFromClientCredentialsCallback(i, err, obj) ==
  /\ calls[i].op = "getAccessTokenFromClientCredentials"
  /\ calls[i].cb = "waiting"
  /\ calls' = [calls EXCEPT ![i] = SettleCallback(@, err, obj)]
  /\ UNCHANGED <<options, fsVars>>

(***************************************************************************)
(* FileSystem.  A request handed to fs runs later, on the thread pool,     *)
(* in no fixed order with the other requests; only existsSync runs at once.*)
(***************************************************************************)
Directories == {"d1", "d2"}
FileNames == {<<"d1", "f">>, <<"d2", "f">>}
FileData == {"x", "y"}
NoFile == "<none>"
\* the directory a file name lies in
DirName(filename) == filename[1]
\* fs.existsSync(path)
existsSync(path) == path \in dirs

FsRequest(kind, path, data, promise) ==
  [kind |-> kind, path |-> path, data |-> data, promise |-> promise]
\* the queue without its k-th request
Without(queue, k) == SubSeq(queue, 1, k - 1) \o SubSeq(queue, k + 1, Len(queue))
NewFsPromise(kind, filename) ==
  [kind |-> kind, filename |-> filename, settles |-> << >>]

\* FileSystem.ensureDirectory(path): fs.mkdir is called without a callback and
\* the method returns
ensureDirectory(path) ==
  /\ IF ~existsSync(path)
     THEN fsQueue' = Append(fsQueue, FsRequest("mkdir", path, NoFile, 0))
     ELSE UNCHANGED fsQueue
  /\ ensured' = Append(ensured, path)
  /\ UNCHANGED <<dirs, files, fsOps, apiVars>>

\* a queued fs.mkdir runs: the directory is made, unless it is there already
MkdirRuns(k) ==
  /\ fsQueue[k].kind = "mkdir"
  /\ dirs' = dirs \cup {fsQueue[k].path}
  /\ fsQueue' = Without(fsQueue, k)
  /\ UNCHANGED <<files, ensured, fsOps, apiVars>>

\* FileSystem.writeFile(filename, data)
writeFile(filename, data) ==
  /\ fsOps' = Append(fsOps, NewFsPromise("writeFile", filename))
  /\ fsQueue' = Append(fsQueue,
                       FsRequest("writeFile", filename, data, Len(fsOps) + 1))
  /\ UNCHANGED <<dirs, files, ensured, apiVars>>

\* the queued fs.writeFile runs and its callback settles the promise
writeFileCallback(k) ==
  LET r == fsQueue[k]
      err == IF DirName(r.path) \in dirs THEN Null ELSE Err("ENOENT")
  IN  /\ r.kind = "writeFile"
      /\ files' = IF Truthy(err) THEN files ELSE [files EXCEPT ![r.path] = r.data]
      /\ fsOps' = [fsOps EXCEPT ![r.promise] =
                     IF Truthy(err) THEN reject(@, err) ELSE resolve(@, Undefined)]
      /\ fsQueue' = Without(fsQueue, k)
      /\ UNCHANGED <<dirs, ensured, apiVars>>

\* FileSystem.readFile(filename)
readFile(filename) ==
  /\ fsOps' = Append(fsOps, NewFsPromise("readFile", filename))
  /\ fsQueue' = Append(fsQueue,
                       FsRequest("readFile", filename, NoFile, Len(fsOps) + 1))
  /\ UNCHANGED <<dirs, files, ensured, apiVars>>

\* the queued fs.readFile runs and its callback settles the promise
readFileCallback(k) ==
  LET r == fsQueue[k]
      err == IF files[r.path] # NoFile THEN Null ELSE Err("ENOENT")
  IN  /\ r.kind = "readFile"
      /\ fsOps' = [fsOps EXCEPT ![r.promise] =
                     IF Truthy(err) THEN reject(@, err)
                     ELSE resolve(@, Str(<<files[r.path]>>))]
      /\ fsQueue' = Without(fsQueue, k)
      /\ UNCHANGED <<dirs, files, ensured, apiVars>>

(***************************************************************************)
(* The specifications.                                                     *)
(***************************************************************************)
Init ==
  /\ options = InitialOptions
  /\ calls = << >>
  /\ dirs = {}
  /\ files = [f \in FileNames |-> NoFile]
  /\ ensured = << >>
  /\ fsQueue = << >>
  /\ fsOps = << >>

ObjectIds == {Str(<<"f", "1">>), Str(<<"a", "/", "b">>)}
Bodies == {Str(<<"v", "=", "1">>), Str(<< >>), Obj("w1")}

\* the IOptions a caller may pass to its next invocation: any of them, until
\* the behaviour holds limit invocations
Callers(limit) == IF Len(calls) < limit THEN OptionIds ELSE {}

\* the results the transport may pass to the callback of invocation i
ResultsFor(i, results) == results \cap TransportResults(calls[i].client)

AllResults == TransportResults(createJsonClient(Undefined))
                \cup TransportResults(createStringClient(Undefined))

\* One invocation at a time, over all the inputs.
Next ==
  \/ \E o \in Callers(MaxCalls) : getApplication(o)
  \/ \E o \in Callers(MaxCalls), objectId \in ObjectIds : getConfigObject(o, objectId)
  \/ \E o \in Callers(MaxCalls), objectId \in ObjectIds, body \in Bodies :
       putConfigObject(o, objectId, body)
  \/ \E o \in Callers(MaxCalls) : getAccessTokenFromRefreshToken(o)
  \/ \E o \in Callers(MaxCalls) : getAccessTokenFromClientCredentials(o)
  \/ \E i \in 1..Len(calls) : \E r \in ResultsFor(i, AllResults) :
       getApplicationCallback(i, r.err, r.obj)
  \/ \E i \in 1..Len(calls) : \E r \in ResultsFor(i, AllResults) :
       getConfigObjectCallback(i, r.err, r.obj)
  \/ \E i \in 1..Len(calls) : \E r \in ResultsFor(i, AllResults) :
       putConfigObjectCallback(i, r.err, r.obj)
  \/ \E i \in 1..Len(calls) : \E r \in ResultsFor(i, AllResults) :
       getAccessTokenFromRefreshTokenCallback(i, r.err, r.obj)
  \/ \E i \in 1..Len(calls) : \E r \in ResultsFor(i, AllResults) :
       getAccessTokenFromClientCredentialsCallback(i, r.err, r.obj)
  \/ \E o \in OptionIds : CallerStoresTokens(o)

Spec == Init /\ [][Next]_vars

\* Concurrent invocations, over fewer inputs.
ConcObjectIds == {Str(<<"f", "1">>)}
ConcBodies == {Str(<<"v", "=", "1">>), Obj("w1")}
ConcResults ==
  {[err |-> Err("ECONNREFUSED"), obj |-> Undefined],
   [err |-> Err("NotFound"), obj |-> Undefined],
   [err |-> Null, obj |-> Obj("w1")],
   [err |-> Null, obj |-> Str(<<"1">>)],
   [err |-> Null, obj |-> Str(<<"[", "1">>)]}

\* the IOptions whose tokens the caller replaces
ConcStoringIds == {"o1"}

ConcNext ==
  \/ \E o \in Callers(MaxConcurrent) : getApplication(o)
  \/ \E o \in Callers(MaxConcurrent), objectId \in ConcObjectIds :
       getConfigObject(o, objectId)
  \/ \E o \in Callers(MaxConcurrent), objectId \in ConcObjectIds, body \in ConcBodies :
       putConfigObject(o, objectId, body)
  \/ \E o \in Callers(MaxConcurrent) : getAccessTokenFromRefreshToken(o)
  \/ \E o \in Callers(MaxConcurrent) : getAccessTokenFromClientCredentials(o)
  \/ \E i \in 1..Len(calls) : \E r \in ResultsFor(i, ConcResults) :
       getApplicationCallback(i, r.err, r.obj)
  \/ \E i \in 1..Len(calls) : \E r \in ResultsFor(i, ConcResults) :
       getConfigObjectCallback(i, r.err, r.obj)
  \/ \E i \in 1..Len(calls) : \E r \in ResultsFor(i, ConcResults) :
       putConfigObjectCallback(i, r.err, r.obj)
  \/ \E i \in 1..Len(calls) : \E r \in ResultsFor(i, ConcResults) :
       getAccessTokenFromRefreshTokenCallback(i, r.err, r.obj)
  \/ \E i \in 1..Len(calls) : \E r \in ResultsFor(i, ConcResults) :
       getAccessTokenFromClientCredentialsCallback(i, r.err, r.obj)
  \/ \E o \in ConcStoringIds : CallerStoresTokens(o)

ConcSpec == Init /\ [][ConcNext]_vars

\* the paths and file names a caller may pass to its next FileSystem
\* operation: any of them, until the behaviour holds MaxFsOps operations
FsCallers(S) == IF Len(ensured) + Len(fsOps) < MaxFsOps THEN S ELSE {}

\* The FileSystem operations.
FsNext ==
  \/ \E path \in FsCallers(Directories) : ensureDirectory(path)
  \/ \E filename \in FsCallers(FileNames), data \in FileData : writeFile(filename, data)
  \/ \E filename \in FsCallers(FileNames) : readFile(filename)
  \/ \E k \in 1..Len(fsQueue) : MkdirRuns(k)
  \/ \E k \in 1..Len(fsQueue) : writeFileCallback(k)
  \/ \E k \in 1..Len(fsQueue) : readFileCallback(k)

FsSpec == Init /\ [][FsNext]_vars

(***************************************************************************)
(* The properties.                                                         *)
(***************************************************************************)
CallIds == 1..Len(calls)
\* the invocation a step has just made, when it has made one
IsInvocation == Len(calls') = Len(calls) + 1
Invoked == calls'[Len(calls')]
\* the IOptions value that invocation was passed
Passed == options[Invoked.options]
Rejected(c, reason) == c.settles = <<[kind |-> "reject", value |-> reason]>>
Resolved(c, value) == c.settles = <<[kind |-> "resolve", value |-> value]>>
ConfigPath(opts, objectId) ==
  <<"/">> \o opts.subscription \o <<"/", "c", "o", "n", "f", "i", "g", "u", "r", "a", "t", "i", "o", "n", "/">> \o opts.application
    \o <<"/">> \o objectId \o <<"/">> \o opts.environment

\* C1: a putConfigObject with a string body whose callback got no error and a
\* response text that is not JSON rejects its promise, once, with a failure
\* that is no transport error, and its callback does not throw.
C1_DecodeFailureRejects ==
  \A i \in CallIds :
    LET c == calls[i]
    IN  (/\ c.op = "putConfigObject" /\ TypeOf(c.body) = "string"
         /\ c.cb # "waiting" /\ ~Truthy(c.err) /\ ~JSONParse(c.obj.s).ok)
        => /\ c.cb = "returned"
           /\ Len(c.settles) = 1
           /\ c.settles[1].kind = "reject"
           /\ c.settles[1].value \notin TransportErrors

\* C2: an invocation whose callback got an error has rejected its promise with
\* that very error, and has made no other call to resolve or reject.
C2_TransportErrorRejectsVerbatim ==
  \A i \in CallIds :
    (calls[i].cb # "waiting" /\ Truthy(calls[i].err))
      => Rejected(calls[i], calls[i].err)

C2_Witness ==
  \E i \in CallIds :
    /\ calls[i].op = "getAccessTokenFromClientCredentials"
    /\ calls[i].err = Err("NotFound")
    /\ Rejected(calls[i], Err("NotFound"))

\* C3: every invocation makes at most one call to resolve or reject, so its
\* promise is never both resolved and rejected, and once the call is made the
\* outcome stays as it is.
C3_SingleOutcome ==
  /\ [](\A i \in CallIds : Len(calls[i].settles) <= 1)
  /\ [][\A i \in CallIds :
          calls[i].settles # << >> => calls'[i].settles = calls[i].settles]_vars

C3_Witness ==
  /\ Len(calls) = 2
  /\ calls[1].op = "putConfigObject" /\ Rejected(calls[1], Err("ECONNREFUSED"))
  /\ calls[2].op = "getApplication" /\ Resolved(calls[2], Obj("w1"))

\* C4: the transport calling the callback of every request once, every
\* invocation settles its promise: an invocation whose callback has been
\* called has resolved or rejected.
C4_CalledBackInvocationSettled ==
  \A i \in CallIds : calls[i].cb # "waiting" => calls[i].settles # << >>

\* C5: putConfigObject uses the string client and parses the response text
\* exactly when body is a string; otherwise it uses the JSON client and
\* resolves with the object the transport passed.
C5_EncodingFollowsBodyType ==
  \A i \in CallIds :
    LET c == calls[i]
    IN  c.op = "putConfigObject" =>
          /\ c.requests = <<Request("PUT", c.requests[1].path, c.body)>>
          /\ IF TypeOf(c.body) = "string"
             THEN /\ c.client.type = "string"
                  /\ \A k \in 1..Len(c.settles) :
                       c.settles[k].kind = "resolve" =>
                         /\ JSONParse(c.obj.s).ok
                         /\ c.settles[k].value = JSONParse(c.obj.s).value
             ELSE /\ c.client.type = "json"
                  /\ \A k \in 1..Len(c.settles) :
                       c.settles[k].kind = "resolve" => c.settles[k].value = c.obj

C5_Witness ==
  \E i \in CallIds :
    /\ calls[i].op = "putConfigObject"
    /\ calls[i].body = Str(<<"v", "=", "1">>)
    /\ calls[i].client.type = "string"
    /\ calls[i].obj = Str(<<"[", "1", ",", " ", "0", "]">>)
    /\ Resolved(calls[i], Arr(<<Num(1), Num(0)>>))

\* the Authorization header an operation is to send for the IOptions opts
ExpectedAuthorization(op, opts) ==
  IF op = "getAccessTokenFromClientCredentials"
  THEN <<"B", "a", "s", "i", "c", " ">> \o Base64(opts.credentials.key \o <<":">> \o opts.credentials.secret)
  ELSE <<"B", "e", "a", "r", "e", "r", " ">> \o opts.tokens.accessToken

\* C6: the client of every invocation carries the Authorization header and no
\* other: Basic base64(key:secret) for getAccessTokenFromClientCredentials,
\* Bearer accessToken of the IOptions passed for the other four.
C6_OneAuthorizationHeader ==
  [][IsInvocation =>
       /\ DOMAIN Invoked.client.options.headers = {"authorization"}
       /\ Invoked.client.options.headers.authorization
            = ExpectedAuthorization(Invoked.op, Passed)]_vars

C6_Witness ==
  /\ \E i \in CallIds :
       /\ calls[i].op = "getAccessTokenFromClientCredentials"
       /\ calls[i].options = "o1"
       /\ calls[i].client.options.headers
            = [authorization |-> <<"B", "a", "s", "i", "c", " ">> \o <<"a", "z", "E", "6", "e", "D", "E", "=">>]
  /\ options["o1"].credentials = [key |-> <<"k", "1">>, secret |-> <<"x", "1">>]

\* C7: getAccessTokenFromRefreshToken posts grant_type "refresh_token" and the
\* refresh token of the IOptions passed; getAccessTokenFromClientCredentials
\* posts grant_type "client_credentials" and no refresh_token.
C7_TokenRequestFollowsGrant ==
  [][IsInvocation =>
       /\ Invoked.op = "getAccessTokenFromRefreshToken" =>
            Invoked.requests[1].body.fields
              = <<[name |-> "grant_type", value |-> Str(<<"r", "e", "f", "r", "e", "s", "h", "_", "t", "o", "k", "e", "n">>)],
                  [name |-> "refresh_token",
                   value |-> Str(Passed.tokens.refreshToken)]>>
       /\ Invoked.op = "getAccessTokenFromClientCredentials" =>
            Invoked.requests[1].body.fields
              = <<[name |-> "grant_type", value |-> Str(<<"c", "l", "i", "e", "n", "t", "_", "c", "r", "e", "d", "e", "n", "t", "i", "a", "l", "s">>)]>>]_vars

C7_Witness ==
  \E i \in CallIds :
    /\ calls[i].op = "getAccessTokenFromRefreshToken"
    /\ calls[i].requests[1].body.fields[2]
         = [name |-> "refresh_token", value |-> Str(<<"r", "3">>)]

\* C8: every operation issues its request with its method to its path, the
\* segments taken as they are; putConfigObject uses the path of
\* getConfigObject; the two GET operations use the JSON client.
C8_MethodAndPath ==
  [][IsInvocation =>
       LET c == Invoked
           r == c.requests[1]
       IN  CASE c.op = "getApplication" ->
                  /\ r.method = "GET" /\ c.client.type = "json"
                  /\ r.path = <<"/">> \o Passed.subscription \o <<"/", "a", "p", "p", "l", "i", "c", "a", "t", "i", "o", "n", "s", "/">>
                                \o Passed.application
             [] c.op = "getConfigObject" ->
                  /\ r.method = "GET" /\ c.client.type = "json"
                  /\ r.path = ConfigPath(Passed, c.objectId.s)
             [] c.op = "putConfigObject" ->
                  /\ r.method = "PUT"
                  /\ r.path = ConfigPath(Passed, c.objectId.s)
             [] OTHER ->
                  /\ r.method = "POST"
                  /\ r.path = <<"/", "o", "a", "u", "t", "h", "/", "t", "o", "k", "e", "n">>]_vars

C8_Witness ==
  \E i \in CallIds :
    /\ calls[i].op = "getConfigObject"
    /\ calls[i].options = "o2"
    /\ calls[i].objectId = Str(<<"a", "/", "b">>)
    /\ calls[i].requests = <<Request("GET", <<"/", "s", "2", "/", "c", "o", "n", "f", "i", "g", "u", "r", "a", "t", "i", "o", "n", "/", "a", "2", "/", "a", "/", "b", "/", "e", "2">>, Undefined)>>

\* C9: an invocation issues one request, built from the IOptions passed to it as
\* they were at the call and never changed afterwards; a step that settles an
\* invocation is the callback of that invocation, settles it with what that
\* callback got, and touches no other invocation; no step of an invocation
\* changes an IOptions object.
C9_InvocationsAreIndependent ==
  /\ [](\A i \in CallIds : Len(calls[i].requests) = 1)
  /\ [][/\ IsInvocation =>
             /\ Invoked.client.options.url = Passed.url
             /\ Invoked.client.options.headers.authorization
                  = ExpectedAuthorization(Invoked.op, Passed)
             /\ SubSeq(calls', 1, Len(calls)) = calls
        /\ \A i \in CallIds :
             /\ calls'[i].client = calls[i].client
             /\ calls'[i].requests = calls[i].requests
             /\ calls'[i].settles # calls[i].settles =>
                  /\ calls[i].cb = "waiting" /\ calls'[i].cb = "returned"
                  /\ \A j \in CallIds \ {i} : calls'[j] = calls[j]
                  /\ \/ Rejected(calls'[i], calls'[i].err)
                     \/ Resolved(calls'[i], calls'[i].obj)
                     \/ /\ calls[i].parseResponse
                        /\ Resolved(calls'[i], JSONParse(calls'[i].obj.s).value)
        /\ calls' # calls => options' = options]_vars

C9_Witness ==
  /\ Len(calls) = 2
  /\ calls[1].options = "o1" /\ calls[2].options = "o1"
  /\ calls[1].op = "getApplication" /\ calls[2].op = "getApplication"
  /\ calls[1].client.options.headers.authorization = <<"B", "e", "a", "r", "e", "r", " ">> \o <<"t", "1">>
  /\ calls[2].client.options.headers.authorization = <<"B", "e", "a", "r", "e", "r", " ">> \o <<"t", "3">>
  /\ calls[1].cb = "waiting"
  /\ Rejected(calls[2], Err("NotFound"))

\* C10: once ensureDirectory(path) has returned, the directory at path exists.
C10_EnsuredDirectoryExists ==
  \A k \in 1..Len(ensured) : ensured[k] \in dirs
====
